---------------------------- MODULE Spec2Model ----------------------------
(***************************************************************************)
(* The request-to-result pipeline of cog's HTTP server                     *)
(* (src/python/cog/server/http.py): HTTPServer.start_server / make_app,    *)
(* the /predict handler handle_request with its try/finally cleanup loop,  *)
(* create_response and _abort400.                                          *)
(*                                                                         *)
(* validate_and_convert_inputs (cog/input.py) and run_model (cog/model.py) *)
(* are imported by http.py but their code is not among the sources; they   *)
(* are modelled from the contract that spec.md section 4.2 / 4.3 states.   *)
(***************************************************************************)
EXTENDS Integers, Sequences, FiniteSets, TLC

(***************************************************************************)
(* Bounds of the model.                                                    *)
(***************************************************************************)
\* Largest duration (in clock ticks) a time.time() difference can take.
MaxDuration == 1
\* Largest number of callbacks one request's cleanup registry can hold.
MaxCallbacks == 3

Durations == 0..MaxDuration

\* Worker threads of the HTTP listener; a single-threaded listener uses only
\* MainThread.
MainThread == "t1"
Threads == {"t1", "t2"}

(***************************************************************************)
(* Python values, as far as the handler inspects them.  Every value has    *)
(* the same shape so that any two can be compared: type is the Python type *)
(* name, s the text of a string-like atom, n the number of a numeric atom, *)
(* keys/vals the content of a container (a list, tuple or set has no       *)
(* keys).                                                                  *)
(***************************************************************************)
Atom(type, s, n) ==
    [type |-> type, s |-> s, n |-> n, keys |-> <<>>, vals |-> <<>>]
PyStr(s) == Atom("str", s, 0)
PyInt(n) == Atom("int", "", n)
\* time.time() differences are floats; the model counts them in clock ticks.
PyFloat(n) == Atom("float", "", n)
PyNone == Atom("NoneType", "", 0)
\* cog.input.UNSPECIFIED: the sentinel for "no default declared".
UNSPECIFIED == Atom("UNSPECIFIED", "", 0)
\* A pathlib.Path.
PyPath(p) == Atom("Path", p, 0)
\* A werkzeug FileStorage (an uploaded file part) with its filename.
FileStorage(filename) == Atom("FileStorage", filename, 0)
Container(type, keys, vals) ==
    [type |-> type, s |-> "", n |-> 0, keys |-> keys, vals |-> vals]
PyDict(keys, vals) == Container("dict", keys, vals)
PyList(vals) == Container("list", <<>>, vals)
PyTuple(vals) == Container("tuple", <<>>, vals)
PySet(vals) == Container("set", <<>>, vals)

Range(seq) == {seq[i] : i \in 1..Len(seq)}

\* str(x) of an atom: a str is itself, a number its decimal text.
Str(x) ==
    CASE x.type \in {"str", "Path", "FileStorage"} -> x.s
      [] x.type \in {"int", "float"} -> ToString(x.n)
      [] x.type = "NoneType" -> "None"
      [] OTHER -> "<" \o x.type \o ">"

(***************************************************************************)
(* The model under service: whether its predict carries an _inputs schema, *)
(* and the schema's field specs in declaration order.                      *)
(***************************************************************************)
InputSpec(name, type, default, min, max, options, help) ==
    [name |-> name, type |-> type, default |-> default, min |-> min,
     max |-> max, options |-> options, help |-> help]

\* "count": integer, min 1, max 10, no default (spec.md section 8).
CountSpec == InputSpec("count", "int", UNSPECIFIED, PyInt(1), PyInt(10), PyNone, PyNone)
\* "image": a file-typed field, no default.
ImageSpec == InputSpec("image", "Path", UNSPECIFIED, PyNone, PyNone, PyNone, PyNone)

NoSchema == [has_inputs |-> FALSE, inputs |-> <<>>]
Declared(specs) == [has_inputs |-> TRUE, inputs |-> specs]
Models == {NoSchema, Declared(<<CountSpec>>), Declared(<<ImageSpec, CountSpec>>)}

(***************************************************************************)
(* Requests: the multipart form fields (key -> text; request.form.items()  *)
(* yields each key once) and the uploaded files in the order               *)
(* request.files.items() yields them.                                      *)
(***************************************************************************)
Keys == {"count", "image"}
CountTexts == {"0", "1", "5", "10", "11", "abc"}
FormTexts(k) == IF k = "count" THEN CountTexts ELSE {"cat"}
Forms == UNION {{f \in [K -> CountTexts \cup {"cat"}] :
                    \A k \in K : f[k] \in FormTexts(k)} : K \in SUBSET Keys}
FileLists == {fs \in UNION {[1..m -> Keys] : m \in 0..Cardinality(Keys)} :
                 \A i, j \in 1..Len(fs) : i # j => fs[i] # fs[j]}
Requests == [form : Forms, files : FileLists]
UploadName == "upload.bin"

(***************************************************************************)
(* HTTP responses.  via is the constructor that built the response         *)
(* (jsonify, Response or send_file), body the payload (a JSON document, a  *)
(* text or the path whose bytes are sent), headers the set of              *)
(* <<name, value>> pairs the handler added.                                *)
(***************************************************************************)
HttpResponse(via, status, mimetype, body) ==
    [via |-> via, status |-> status, mimetype |-> mimetype, body |-> body,
     headers |-> {}]

\* JSON documents have the shape of Python values, with JSON's type names.
JNull == Atom("null", "", 0)
JString(s) == Atom("string", s, 0)
\* A JSON number keeps whether it was written as an integer or a real.
JNumber(kind, n) == Atom("number", kind, n)
JArray(vals) == Container("array", <<>>, vals)
JObject(keys, vals) == Container("object", keys, vals)

\* json.dumps of an atom.
DumpsAtom(x) ==
    CASE x.type = "NoneType" -> JNull
      [] x.type = "str" -> JString(x.s)
      [] x.type \in {"int", "float"} -> JNumber(x.type, x.n)
\* json.dumps of a dict key: a str is kept, a number or None is turned into
\* its text.
DumpsKey(k) ==
    CASE k.type = "str" -> JString(k.s)
      [] k.type \in {"int", "float"} -> JString(ToString(k.n))
      [] k.type = "NoneType" -> JString("null")
AtomSerializable(x) == x.type \in {"NoneType", "str", "int", "float"}
\* Whether json.dumps accepts x (it raises TypeError otherwise).
RECURSIVE Serializable(_)
Serializable(x) ==
    CASE x.type \in {"list", "tuple"} ->
            \A i \in 1..Len(x.vals) : Serializable(x.vals[i])
      [] x.type = "dict" ->
            /\ \A i \in 1..Len(x.keys) : AtomSerializable(x.keys[i])
            /\ \A i \in 1..Len(x.vals) : Serializable(x.vals[i])
      [] OTHER -> AtomSerializable(x)
\* json.dumps(x) for a serializable x: lists and tuples become arrays, dicts
\* objects whose keys are strings.
RECURSIVE Dumps(_)
Dumps(x) ==
    CASE x.type \in {"list", "tuple"} ->
            JArray([i \in 1..Len(x.vals) |-> Dumps(x.vals[i])])
      [] x.type = "dict" ->
            JObject([i \in 1..Len(x.keys) |-> DumpsKey(x.keys[i])],
                    [i \in 1..Len(x.vals) |-> Dumps(x.vals[i])])
      [] OTHER -> DumpsAtom(x)

\* flask.jsonify(x): a 200 application/json response holding json.dumps(x).
jsonify(x) == HttpResponse("jsonify", 200, "application/json", Dumps(x))

\* _abort400(message): the JSON document {"message": message} with status 400.
_abort400(message) ==
    [jsonify(PyDict(<<PyStr("message")>>, <<PyStr(message)>>))
        EXCEPT !.status = 400]

(***************************************************************************)
(* Input Collector, handle_request lines 34-42.                            *)
(***************************************************************************)
DuplicatedMessage(key) == "Duplicated argument name in form and files: " \o key

\* A merge that lets an uploaded file silently overwrite a form field of
\* the same name.
MergeFilesOverwriting(raw_inputs, files, i) ==
    [dup |-> FALSE, key |-> "",
     raw_inputs |-> [k \in DOMAIN raw_inputs \cup Range(files) |->
                        IF k \in Range(files) THEN FileStorage(UploadName)
                        ELSE raw_inputs[k]]]

\* The loop over request.files.items(), from its i-th item on: it stops at
\* the first key that raw_inputs already holds.
RECURSIVE MergeFiles(_, _, _)
MergeFiles(raw_inputs, files, i) ==
    IF i > Len(files)
    THEN [dup |-> FALSE, key |-> "", raw_inputs |-> raw_inputs]
    ELSE IF files[i] \in DOMAIN raw_inputs
         THEN [dup |-> TRUE, key |-> files[i], raw_inputs |-> raw_inputs]
         ELSE MergeFiles(raw_inputs @@ (files[i] :> FileStorage(UploadName)),
                         files, i + 1)

\* The loop over request.form.items() followed by the loop over the files.
CollectInputs(request) ==
    MergeFiles([k \in DOMAIN request.form |-> PyStr(request.form[k])],
               request.files, 1)

(***************************************************************************)
(* Schema Validator/Converter: cog.input.validate_and_convert_inputs, as   *)
(* spec.md section 4.2 states its contract.                                *)
(***************************************************************************)
\* A cleanup callback: id is its position of registration in the request's
\* registry, by the step that registered it.
Callback(id, by) == [id |-> id, by |-> by]
Register(cleanup_functions, by) ==
    Append(cleanup_functions, Callback(Len(cleanup_functions) + 1, by))

\* int(text): the integer whose decimal text it is, if there is one.
IntLiterals == -1..12
IsIntText(text) == \E n \in IntLiterals : ToString(n) = text
ParseInt(text) == CHOOSE n \in IntLiterals : ToString(n) = text

\* Coercion of one raw value to the field's declared type.
Coerce(spec, val) ==
    CASE spec.type = "int" ->
            IF val.type = "str" /\ IsIntText(val.s)
            THEN [ok |-> TRUE, value |-> PyInt(ParseInt(val.s))]
            ELSE [ok |-> FALSE, value |-> PyNone]
      [] spec.type = "Path" ->
            IF val.type = "FileStorage"
            THEN [ok |-> TRUE, value |-> PyPath("/tmp/" \o val.s)]
            ELSE [ok |-> FALSE, value |-> PyNone]
      [] OTHER ->
            IF val.type = "str"
            THEN [ok |-> TRUE, value |-> val]
            ELSE [ok |-> FALSE, value |-> PyNone]

InOptions(spec, value) ==
    spec.options.type = "NoneType" \/ value \in Range(spec.options.vals)
AboveMin(spec, value) == spec.min.type = "NoneType" \/ value.n >= spec.min.n
BelowMax(spec, value) == spec.max.type = "NoneType" \/ value.n <= spec.max.n

Validated(inputs, cleanup_functions) ==
    [ok |-> TRUE, message |-> "", inputs |-> inputs,
     cleanup_functions |-> cleanup_functions]
\* InputValidationError(message): the callbacks registered so far stay in the
\* caller's registry.
InputValidationError(message, cleanup_functions) ==
    [ok |-> FALSE, message |-> message, inputs |-> <<>>,
     cleanup_functions |-> cleanup_functions]

\* The fields of the schema from the i-th on, in declaration order.
RECURSIVE ValidateFrom(_, _, _, _, _)
ValidateFrom(specs, i, raw_inputs, inputs, cleanup_functions) ==
    IF i > Len(specs) THEN Validated(inputs, cleanup_functions)
    ELSE
      LET spec == specs[i]
          name == spec.name
      IN IF name \notin DOMAIN raw_inputs
         THEN IF spec.default = UNSPECIFIED
              THEN InputValidationError("Missing expected argument: " \o name,
                                        cleanup_functions)
              ELSE ValidateFrom(specs, i + 1, raw_inputs,
                                inputs @@ (name :> spec.default),
                                cleanup_functions)
         ELSE
           LET c == Coerce(spec, raw_inputs[name])
               \* A file-typed input is written to a temporary place, and
               \* its removal is registered.
               cleanup == IF c.ok /\ spec.type = "Path"
                          THEN Register(cleanup_functions, "convert")
                          ELSE cleanup_functions
           IN CASE ~c.ok ->
                     InputValidationError(
                        "Could not convert " \o name \o "="
                           \o Str(raw_inputs[name]) \o " to " \o spec.type,
                        cleanup)
                [] c.ok /\ ~InOptions(spec, c.value) ->
                     InputValidationError(
                        "Value of " \o name \o " is not an allowed option",
                        cleanup)
                [] c.ok /\ InOptions(spec, c.value) /\ ~AboveMin(spec, c.value) ->
                     InputValidationError(
                        "Value of " \o name \o " is less than the min value "
                           \o Str(spec.min), cleanup)
                [] c.ok /\ InOptions(spec, c.value) /\ AboveMin(spec, c.value)
                        /\ ~BelowMax(spec, c.value) ->
                     InputValidationError(
                        "Value of " \o name \o " is greater than the max value "
                           \o Str(spec.max), cleanup)
                [] OTHER ->
                     ValidateFrom(specs, i + 1, raw_inputs,
                                  inputs @@ (name :> c.value), cleanup)

validate_and_convert_inputs(model, raw_inputs, cleanup_functions) ==
    ValidateFrom(model.inputs, 1, raw_inputs, <<>>, cleanup_functions)

(***************************************************************************)
(* Response Builder: HTTPServer.create_response.                           *)
(***************************************************************************)
\* What leaves a call: a returned value or a raised exception.
Returns(response) == [kind |-> "return", response |-> response, exception |-> ""]
Raises(exception) ==
    [kind |-> "raise", response |-> HttpResponse("", 0, "", JNull),
     exception |-> exception]
Nothing == [kind |-> "none", response |-> HttpResponse("", 0, "", JNull),
            exception |-> ""]

\* resp.headers[name] = value: werkzeug stores the str() of a non-str value.
SetHeader(resp, name, value) ==
    [resp EXCEPT !.headers =
        {h \in resp.headers : h[1] # name} \cup {<<name, Str(value)>>}]

\* The branch of the isinstance chain that result takes.
ResultBranch(result) ==
    IF result.type = "Path" THEN "send_file"
    ELSE IF result.type = "str" THEN "Response"
    ELSE "jsonify"

\* A response builder without the str branch: every result that is not a
\* path is handed to jsonify.
CreateResponseWithoutText(result, setup_time, run_time, readable) ==
    LET built ==
          IF result.type = "Path"
          THEN IF readable
               THEN Returns(HttpResponse("send_file", 200,
                                         "application/octet-stream",
                                         Atom("file", Str(result), 0)))
               ELSE Raises("FileNotFoundError")
          ELSE IF Serializable(result) THEN Returns(jsonify(result))
               ELSE Raises("TypeError")
    IN IF built.kind = "raise" THEN built
       ELSE Returns(SetHeader(SetHeader(built.response,
                                        "X-Setup-Time", setup_time),
                              "X-Run-Time", run_time))

\* A response builder that puts each time under the other's header.
CreateResponseTimesSwapped(result, setup_time, run_time, readable) ==
    LET built ==
          CASE result.type = "Path" ->
                  IF readable
                  THEN Returns(HttpResponse("send_file", 200,
                                            "application/octet-stream",
                                            Atom("file", Str(result), 0)))
                  ELSE Raises("FileNotFoundError")
            [] result.type = "str" ->
                  Returns(HttpResponse("Response", 200, "text/plain",
                                       Atom("text", result.s, 0)))
            [] OTHER ->
                  IF Serializable(result)
                  THEN Returns(jsonify(result))
                  ELSE Raises("TypeError")
    IN IF built.kind = "raise" THEN built
       ELSE Returns(SetHeader(SetHeader(built.response,
                                        "X-Setup-Time", run_time),
                              "X-Run-Time", setup_time))

\* readable: whether send_file finds a readable file at the path.
create_response(result, setup_time, run_time, readable) ==
    LET branch == ResultBranch(result)
        built ==
          CASE branch = "send_file" ->
                  IF readable
                  THEN Returns(HttpResponse("send_file", 200,
                                            "application/octet-stream",
                                            Atom("file", Str(result), 0)))
                  ELSE Raises("FileNotFoundError")
            [] branch = "Response" ->
                  Returns(HttpResponse("Response", 200, "text/plain",
                                       Atom("text", result.s, 0)))
            [] OTHER ->
                  IF Serializable(result)
                  THEN Returns(jsonify(result))
                  ELSE Raises("TypeError")
    IN IF built.kind = "raise" THEN built
       ELSE Returns(SetHeader(SetHeader(built.response,
                                        "X-Setup-Time", setup_time),
                              "X-Run-Time", run_time))

(***************************************************************************)
(* The server and its requests.                                            *)
(***************************************************************************)
VARIABLES
    model,        \* self.model: the schema its predict declares
    threaded,     \* whether the listener serves requests on several threads
    phase,        \* "constructed", "serving" (the app runs) or "crashed"
    setup_count,  \* how many times self.model.setup() was called
    setup_time,   \* make_app's setup_time, closed over by handle_request
    req,          \* per worker thread: the locals of its handle_request call
    traffic,      \* which requests clients send and which values predict returns
    served        \* the last answer of the /ping or /help route

vars == <<model, threaded, phase, setup_count, setup_time, req, traffic, served>>

\* A local that is not bound yet.
UNSET == Atom("<unset>", "", 0)

\* What the model's predict may return.
ResultValues ==
    {PyPath("/out/result.png"), PyStr("hello"), PyNone,
     PyDict(<<PyStr("label")>>, <<PyStr("cat")>>),
     PyDict(<<PyInt(1)>>, <<PyStr("cat")>>),
     PyList(<<PyInt(1), PyInt(2)>>), PySet(<<PyInt(1)>>)}

\* An upload of "image" with count=5 in the form.
UploadRequest == [form |-> [k \in {"count"} |-> "5"], files |-> <<"image">>]

\* The traffic of a run: any request and any result, or only uploads
\* answered with a text.
RequestsOf(kind) == IF kind = "any" THEN Requests ELSE {UploadRequest}
ResultsOf(kind) == IF kind = "any" THEN ResultValues ELSE {PyStr("hello")}
\* Whether a cleanup callback may register another one: any callback may, the
\* ones of an upload (the removal of its temporary file) do not.
NestingOf(kind) == IF kind = "any" THEN BOOLEAN ELSE {FALSE}

NoCalls == [validate |-> 0, run_model |-> 0, create_response |-> 0]

\* The locals of a handle_request call at its entry (line 30-32), with the
\* bookkeeping of what the call did: calls counts the calls it made,
\* predict_args is what run_model was given, executed the callbacks run (in
\* order), raised those that raised, stderr what was written to sys.stderr.
Entered(request) ==
    [pc |-> "collect", request |-> request, raw_inputs |-> <<>>,
     inputs |-> <<>>, cleanup_functions |-> <<>>, i |-> 1, result |-> UNSET,
     run_time |-> UNSET, pending |-> Nothing, returned |-> Nothing,
     calls |-> NoCalls, predict_args |-> <<>>, executed |-> <<>>,
     raised |-> {}, stderr |-> <<>>]
Idle == [Entered([form |-> <<>>, files |-> <<>>]) EXCEPT !.pc = "idle"]

\* Neither /ping nor /help has been asked yet.
NotServed == [route |-> "", response |-> HttpResponse("", 0, "", JNull)]

\* The server as HTTPServer(model) constructs it, for one of the models.
Constructed(models) ==
    /\ model \in models
    /\ phase = "constructed"
    /\ setup_count = 0
    /\ setup_time = UNSET
    /\ req = [t \in Threads |-> Idle]
    /\ served = NotServed

Init ==
    /\ Constructed(Models)
    /\ threaded = FALSE
    /\ traffic = "any"

\* The threads on which the listener runs handle_request.
Workers == IF threaded THEN Threads ELSE {MainThread}

(***************************************************************************)
(* HTTPServer.start_server -> make_app: the model's one-time setup, timed, *)
(* then the app serves.                                                    *)
(***************************************************************************)
\* A server that can run make_app, and with it the model's setup, again
\* while it serves.
StartServerAgain ==
    /\ phase \in {"constructed", "serving"}
    /\ setup_count < 2
    /\ setup_count' = setup_count + 1
    /\ \E d \in Durations : setup_time' = PyFloat(d)
    /\ phase' = "serving"
    /\ UNCHANGED <<model, threaded, req, traffic, served>>

StartServer ==
    /\ phase = "constructed"
    /\ setup_count' = setup_count + 1
    /\ \E d \in Durations : setup_time' = PyFloat(d)
    /\ phase' = "serving"
    /\ UNCHANGED <<model, threaded, req, traffic, served>>

\* self.model.setup() raises: make_app does not return, no app runs.
SetupFails ==
    /\ phase = "constructed"
    /\ setup_count' = setup_count + 1
    /\ phase' = "crashed"
    /\ UNCHANGED <<model, threaded, setup_time, req, traffic, served>>

(***************************************************************************)
(* handle_request, a step at a time.  pending is what the try block has    *)
(* handed to the finally clause: the value of a return statement that has  *)
(* been evaluated, or an exception on its way out.                         *)
(***************************************************************************)
\* Lines 30-42: a request arrives at /predict or /infer on worker t; the
\* locals are fresh, the form fields and files are merged.
Collect(t) ==
    /\ phase = "serving"
    /\ t \in Workers
    /\ req[t].pc \in {"idle", "done"}
    /\ \E request \in RequestsOf(traffic) :
         LET c == CollectInputs(request)
             l == Entered(request)
         IN req' = [req EXCEPT ![t] =
               IF c.dup
               THEN [l EXCEPT !.pc = "finally",
                              !.pending = Returns(_abort400(DuplicatedMessage(c.key)))]
               ELSE [l EXCEPT !.pc = "validate",
                              !.raw_inputs = c.raw_inputs]]
    /\ UNCHANGED <<model, threaded, phase, setup_count, setup_time, traffic,
                 served>>

\* A handler that converts the inputs whether or not the model's predict
\* carries a schema.
ValidateAlways(t) ==
    /\ req[t].pc = "validate"
    /\ LET l == req[t]
           v == validate_and_convert_inputs(model, l.raw_inputs,
                                            l.cleanup_functions)
       IN req' = [req EXCEPT ![t] =
             IF v.ok
             THEN [l EXCEPT !.pc = "run_model", !.inputs = v.inputs,
                            !.cleanup_functions = v.cleanup_functions,
                            !.calls.validate = @ + 1]
             ELSE [l EXCEPT !.pc = "finally",
                            !.cleanup_functions = v.cleanup_functions,
                            !.calls.validate = @ + 1,
                            !.pending = Returns(_abort400(v.message))]]
    /\ UNCHANGED <<model, threaded, phase, setup_count, setup_time, traffic,
                 served>>

\* A handler that validates but hands the raw inputs to the model.
ValidatePassingRaw(t) ==
    /\ req[t].pc = "validate"
    /\ LET l == req[t]
           v == validate_and_convert_inputs(model, l.raw_inputs,
                                            l.cleanup_functions)
       IN req' = [req EXCEPT ![t] =
             IF ~model.has_inputs
             THEN [l EXCEPT !.pc = "run_model", !.inputs = l.raw_inputs]
             ELSE IF v.ok
             THEN [l EXCEPT !.pc = "run_model", !.inputs = l.raw_inputs,
                            !.cleanup_functions = v.cleanup_functions,
                            !.calls.validate = @ + 1]
             ELSE [l EXCEPT !.pc = "finally",
                            !.cleanup_functions = v.cleanup_functions,
                            !.calls.validate = @ + 1,
                            !.pending = Returns(_abort400(v.message))]]
    /\ UNCHANGED <<model, threaded, phase, setup_count, setup_time, traffic,
                 served>>

\* A handler that swallows the validation error and goes on with the raw
\* inputs.
ValidateIgnoringErrors(t) ==
    /\ req[t].pc = "validate"
    /\ LET l == req[t]
           v == validate_and_convert_inputs(model, l.raw_inputs,
                                            l.cleanup_functions)
       IN req' = [req EXCEPT ![t] =
             [l EXCEPT !.pc = "run_model",
                       !.inputs = IF model.has_inputs /\ v.ok THEN v.inputs
                                  ELSE l.raw_inputs,
                       !.cleanup_functions = v.cleanup_functions,
                       !.calls.validate = IF model.has_inputs THEN @ + 1 ELSE @]]
    /\ UNCHANGED <<model, threaded, phase, setup_count, setup_time, traffic,
                 served>>

\* Lines 44-52: conversion when the model's predict carries _inputs.
Validate(t) ==
    /\ req[t].pc = "validate"
    /\ LET l == req[t]
           v == validate_and_convert_inputs(model, l.raw_inputs,
                                            l.cleanup_functions)
       IN req' = [req EXCEPT ![t] =
             IF ~model.has_inputs
             THEN [l EXCEPT !.pc = "run_model", !.inputs = l.raw_inputs]
             ELSE IF v.ok
             THEN [l EXCEPT !.pc = "run_model", !.inputs = v.inputs,
                            !.cleanup_functions = v.cleanup_functions,
                            !.calls.validate = @ + 1]
             ELSE [l EXCEPT !.pc = "finally",
                            !.cleanup_functions = v.cleanup_functions,
                            !.calls.validate = @ + 1,
                            !.pending = Returns(_abort400(v.message))]]
    /\ UNCHANGED <<model, threaded, phase, setup_count, setup_time, traffic,
                 served>>

\* cog.model.run_model(model, inputs, cleanup_functions): the model's predict
\* returns a value or raises; run_model may register a callback of its own.
run_model(l, outcome, registers) ==
    [l EXCEPT !.calls.run_model = @ + 1,
              !.predict_args = l.inputs,
              !.cleanup_functions =
                  IF registers /\ Len(@) < MaxCallbacks
                  THEN Register(@, "run_model") ELSE @,
              !.result = IF outcome.kind = "return" THEN outcome.response
                         ELSE @,
              !.pending = IF outcome.kind = "raise" THEN outcome ELSE @]

\* A handler that catches the model's exception and answers 400.
RunModelCaught(t) ==
    /\ req[t].pc = "run_model"
    /\ \E registers \in BOOLEAN :
       \E outcome \in {[kind |-> "return", response |-> r, exception |-> ""] :
                          r \in ResultsOf(traffic)} \cup {Raises("ModelError")} :
         LET l == run_model(req[t], outcome, registers)
         IN req' = [req EXCEPT ![t] =
               IF outcome.kind = "raise"
               THEN [l EXCEPT !.pc = "finally",
                              !.pending = Returns(_abort400(outcome.exception))]
               ELSE [l EXCEPT !.pc = "respond"]]
    /\ UNCHANGED <<model, threaded, phase, setup_count, setup_time, traffic,
                 served>>

\* Line 54: the model is invoked; nothing here catches what it raises.
RunModel(t) ==
    /\ req[t].pc = "run_model"
    /\ \E registers \in BOOLEAN :
       \E outcome \in {[kind |-> "return", response |-> r, exception |-> ""] :
                          r \in ResultsOf(traffic)} \cup {Raises("ModelError")} :
         LET l == run_model(req[t], outcome, registers)
         IN req' = [req EXCEPT ![t] =
               [l EXCEPT !.pc = IF outcome.kind = "raise" THEN "finally"
                                ELSE "respond"]]
    /\ UNCHANGED <<model, threaded, phase, setup_count, setup_time, traffic,
                 served>>

\* A handler that answers 400 when the response cannot be built.
RespondCaught(t) ==
    /\ req[t].pc = "respond"
    /\ \E d \in Durations, readable \in BOOLEAN :
         LET l == req[t]
             built == create_response(l.result, setup_time, PyFloat(d), readable)
         IN req' = [req EXCEPT ![t] =
               [l EXCEPT !.pc = "finally",
                         !.run_time = PyFloat(d),
                         !.calls.create_response = @ + 1,
                         !.pending = IF built.kind = "raise"
                                     THEN Returns(_abort400(built.exception))
                                     ELSE built]]
    /\ UNCHANGED <<model, threaded, phase, setup_count, setup_time, traffic,
                 served>>

\* Lines 55-56: run_time is measured and the return value is built.
Respond(t) ==
    /\ req[t].pc = "respond"
    /\ \E d \in Durations, readable \in BOOLEAN :
         LET l == req[t]
         IN req' = [req EXCEPT ![t] =
               [l EXCEPT !.pc = "finally",
                         !.run_time = PyFloat(d),
                         !.calls.create_response = @ + 1,
                         !.pending = create_response(l.result, setup_time,
                                                     PyFloat(d), readable)]]
    /\ UNCHANGED <<model, threaded, phase, setup_count, setup_time, traffic,
                 served>>

\* A loop without the try/except around the callback: the first callback
\* that raises ends the loop and its exception replaces the pending outcome.
CleanupUnguarded(t) ==
    /\ req[t].pc = "finally"
    /\ req[t].i <= Len(req[t].cleanup_functions)
    /\ \E raises \in BOOLEAN :
         LET l == req[t]
             f == l.cleanup_functions[l.i]
         IN req' = [req EXCEPT ![t] =
               [l EXCEPT !.i = IF raises THEN Len(l.cleanup_functions) + 1
                               ELSE @ + 1,
                         !.executed = Append(@, f.id),
                         !.raised = IF raises THEN @ \cup {f.id} ELSE @,
                         !.pending = IF raises THEN Raises("CleanupError")
                                     ELSE @]]
    /\ UNCHANGED <<model, threaded, phase, setup_count, setup_time, traffic,
                 served>>

\* A loop that runs the callbacks last-registered first.
CleanupReversed(t) ==
    /\ req[t].pc = "finally"
    /\ req[t].i <= Len(req[t].cleanup_functions)
    /\ \E raises \in BOOLEAN :
         LET l == req[t]
             f == l.cleanup_functions[Len(l.cleanup_functions) + 1 - l.i]
         IN req' = [req EXCEPT ![t] =
               [l EXCEPT !.i = @ + 1,
                         !.executed = Append(@, f.id),
                         !.raised = IF raises THEN @ \cup {f.id} ELSE @,
                         !.stderr = IF raises THEN Append(@, f.id) ELSE @]]
    /\ UNCHANGED <<model, threaded, phase, setup_count, setup_time, traffic,
                 served>>

\* A handler that runs the cleanup loop before it builds the response.
CleanupBeforeResponse(t) ==
    /\ req[t].pc \in {"respond", "finally"}
    /\ req[t].i <= Len(req[t].cleanup_functions)
    /\ \E raises \in BOOLEAN, registers \in NestingOf(traffic) :
         LET l == req[t]
             f == l.cleanup_functions[l.i]
         IN req' = [req EXCEPT ![t] =
               [l EXCEPT !.i = @ + 1,
                         !.executed = Append(@, f.id),
                         !.cleanup_functions =
                             IF registers /\ Len(@) < MaxCallbacks
                             THEN Register(@, "cleanup") ELSE @,
                         !.raised = IF raises THEN @ \cup {f.id} ELSE @,
                         !.stderr = IF raises THEN Append(@, f.id) ELSE @]]
    /\ UNCHANGED <<model, threaded, phase, setup_count, setup_time, traffic,
                 served>>

\* A loop over a registry that the requests in flight share: the drain of
\* one request also runs the callbacks another request has registered.
CleanupShared(t) ==
    /\ req[t].pc = "finally"
    /\ \E u \in Threads, raises \in BOOLEAN :
         /\ req[u].pc \in {"validate", "run_model", "respond", "finally"}
         /\ req[u].i <= Len(req[u].cleanup_functions)
         /\ LET l == req[u]
                f == l.cleanup_functions[l.i]
            IN req' = [req EXCEPT ![u] =
                  [l EXCEPT !.i = @ + 1,
                            !.executed = Append(@, f.id),
                            !.raised = IF raises THEN @ \cup {f.id} ELSE @,
                            !.stderr = IF raises THEN Append(@, f.id) ELSE @]]
    /\ UNCHANGED <<model, threaded, phase, setup_count, setup_time, traffic,
                 served>>

\* Lines 58-62, one iteration: the i-th callback of the list runs; if it
\* raises an Exception the message goes to sys.stderr and the loop goes on.
\* A callback may itself register another one.
Cleanup(t) ==
    /\ req[t].pc = "finally"
    /\ req[t].i <= Len(req[t].cleanup_functions)
    /\ \E raises \in BOOLEAN, registers \in NestingOf(traffic) :
         LET l == req[t]
             f == l.cleanup_functions[l.i]
         IN req' = [req EXCEPT ![t] =
               [l EXCEPT !.i = @ + 1,
                         !.executed = Append(@, f.id),
                         !.cleanup_functions =
                             IF registers /\ Len(@) < MaxCallbacks
                             THEN Register(@, "cleanup") ELSE @,
                         !.raised = IF raises THEN @ \cup {f.id} ELSE @,
                         !.stderr = IF raises THEN Append(@, f.id) ELSE @]]
    /\ UNCHANGED <<model, threaded, phase, setup_count, setup_time, traffic,
                 served>>

\* A handler whose return does not wait for the cleanup loop.
ReturnEarly(t) ==
    /\ req[t].pc = "finally"
    /\ req' = [req EXCEPT ![t].pc = "done", ![t].returned = req[t].pending]
    /\ UNCHANGED <<model, threaded, phase, setup_count, setup_time, traffic,
                 served>>

\* A loop over a copy of the list taken when the loop starts: the handler
\* returns once the callbacks registered before the loop have run.
ReturnAfterCopy(t) ==
    /\ req[t].pc = "finally"
    /\ req[t].i > Cardinality({j \in 1..Len(req[t].cleanup_functions) :
                                  req[t].cleanup_functions[j].by # "cleanup"})
    /\ req' = [req EXCEPT ![t].pc = "done", ![t].returned = req[t].pending]
    /\ UNCHANGED <<model, threaded, phase, setup_count, setup_time, traffic,
                 served>>

\* The list is exhausted: the finally clause ends and the pending return or
\* exception leaves handle_request.
Return(t) ==
    /\ req[t].pc = "finally"
    /\ req[t].i > Len(req[t].cleanup_functions)
    /\ req' = [req EXCEPT ![t].pc = "done", ![t].returned = req[t].pending]
    /\ UNCHANGED <<model, threaded, phase, setup_count, setup_time, traffic,
                 served>>

(***************************************************************************)
(* The /ping and /help routes, lines 64-88.                                *)
(***************************************************************************)
\* A view that returns a str: Flask answers 200 with the text as body.
ping == HttpResponse("Response", 200, "text/html", Atom("text", "PONG", 0))

\* cog.input.get_type_name: the schema's own name of a field type.
get_type_name(type) == PyStr(type)

\* bool(x), as an if statement takes it.
Truthy(x) ==
    CASE x.type \in {"NoneType", "UNSPECIFIED"} -> x.type = "UNSPECIFIED"
      [] x.type = "str" -> x.s # ""
      [] x.type \in {"int", "float"} -> x.n # 0
      [] x.type \in {"list", "tuple", "set", "dict"} -> Len(x.vals) > 0
      [] OTHER -> TRUE

\* The dict with the given <<key, value>> items, in their order.
DictOf(items) ==
    PyDict([i \in 1..Len(items) |-> PyStr(items[i][1])],
           [i \in 1..Len(items) |-> items[i][2]])
\* One item if the condition holds, none otherwise.
ItemIf(cond, key, value) == IF cond THEN <<<<key, value>>>> ELSE <<>>

\* An entry that tests the default for truth instead of for the sentinel.
HelpArgDefaultIfTruthy(spec) ==
    DictOf(<<<<"type", get_type_name(spec.type)>>>>
           \o ItemIf(Truthy(spec.help), "help", spec.help)
           \o ItemIf(Truthy(spec.default), "default", PyStr(Str(spec.default)))
           \o ItemIf(spec.min # PyNone, "min", PyStr(Str(spec.min)))
           \o ItemIf(spec.max # PyNone, "max", PyStr(Str(spec.max)))
           \o ItemIf(spec.options # PyNone, "options",
                     PyList([i \in 1..Len(spec.options.vals) |->
                                PyStr(Str(spec.options.vals[i]))])))

\* An entry that tests min and max for truth instead of for None.
HelpArgBoundsIfTruthy(spec) ==
    DictOf(<<<<"type", get_type_name(spec.type)>>>>
           \o ItemIf(Truthy(spec.help), "help", spec.help)
           \o ItemIf(spec.default # UNSPECIFIED, "default",
                     PyStr(Str(spec.default)))
           \o ItemIf(Truthy(spec.min), "min", PyStr(Str(spec.min)))
           \o ItemIf(Truthy(spec.max), "max", PyStr(Str(spec.max)))
           \o ItemIf(spec.options # PyNone, "options",
                     PyList([i \in 1..Len(spec.options.vals) |->
                                PyStr(Str(spec.options.vals[i]))])))

\* Lines 74-86: the entry of one field.
HelpArg(spec) ==
    DictOf(<<<<"type", get_type_name(spec.type)>>>>
           \o ItemIf(Truthy(spec.help), "help", spec.help)
           \o ItemIf(spec.default # UNSPECIFIED, "default",
                     PyStr(Str(spec.default)))
           \o ItemIf(spec.min # PyNone, "min", PyStr(Str(spec.min)))
           \o ItemIf(spec.max # PyNone, "max", PyStr(Str(spec.max)))
           \o ItemIf(spec.options # PyNone, "options",
                     PyList([i \in 1..Len(spec.options.vals) |->
                                PyStr(Str(spec.options.vals[i]))])))

\* A view that keeps only the entry of the last field of the schema.
HelpOfLastField(m) ==
    jsonify(DictOf(<<<<"arguments",
        IF m.has_inputs /\ m.inputs # <<>>
        THEN DictOf(<<<<m.inputs[Len(m.inputs)].name,
                        HelpArg(m.inputs[Len(m.inputs)])>>>>)
        ELSE DictOf(<<>>)>>>>))

\* Lines 70-88: the document {"arguments": args} of model m, args holding one
\* entry per field of the schema, in declaration order, or nothing.
help(m) ==
    jsonify(DictOf(<<<<"arguments",
        IF m.has_inputs
        THEN DictOf([i \in 1..Len(m.inputs) |->
                        <<m.inputs[i].name, HelpArg(m.inputs[i])>>])
        ELSE DictOf(<<>>)>>>>))

\* The listener can take a request for /ping or /help: a threaded listener
\* starts a thread for it, another one takes it between two requests.
CanServe == phase = "serving" /\ (threaded \/ req[MainThread].pc \in {"idle", "done"})

Ping ==
    /\ CanServe
    /\ served' = [route |-> "/ping", response |-> ping]
    /\ UNCHANGED <<model, threaded, phase, setup_count, setup_time, req, traffic>>

\* A /help view that runs the model's setup again.
HelpRunningSetup ==
    /\ CanServe
    /\ served' = [route |-> "/help", response |-> help(model)]
    /\ setup_count' = IF setup_count < 2 THEN setup_count + 1 ELSE setup_count
    /\ UNCHANGED <<model, threaded, phase, setup_time, req, traffic>>

Help ==
    /\ CanServe
    /\ served' = [route |-> "/help", response |-> help(model)]
    /\ UNCHANGED <<model, threaded, phase, setup_count, setup_time, req, traffic>>

Next ==
    \/ StartServer
    \/ SetupFails
    \/ \E t \in Threads :
         \/ Collect(t)
         \/ Validate(t)
         \/ RunModel(t)
         \/ Respond(t)
         \/ Cleanup(t)
         \/ Return(t)

Spec == Init /\ [][Next]_vars

(***************************************************************************)
(* The help view over the schemas a model can declare.                     *)
(***************************************************************************)
HelpDefaults == {UNSPECIFIED, PyNone, PyInt(0), PyStr(""), PyStr("x")}
HelpTexts == {PyNone, PyStr(""), PyStr("How many")}
HelpMins == {PyNone, PyInt(0), PyInt(1)}
HelpMaxs == {PyNone, PyInt(0), PyInt(10)}
HelpOptions == {PyNone, PyList(<<>>), PyList(<<PyInt(1), PyStr("a")>>)}
FieldSpecs ==
    {InputSpec("count", type, default, min, max, options, text) :
        type \in {"int", "str"}, default \in HelpDefaults, min \in HelpMins,
        max \in HelpMaxs, options \in HelpOptions, text \in HelpTexts}
HelpModels ==
    {NoSchema, Declared(<<ImageSpec, CountSpec>>), Declared(<<CountSpec, ImageSpec>>)}
        \cup {Declared(<<spec>>) : spec \in FieldSpecs}

InitHelp ==
    /\ Constructed(HelpModels)
    /\ threaded = FALSE
    /\ traffic = "any"

NextHelp == StartServer \/ SetupFails \/ Ping \/ Help

SpecHelp == InitHelp /\ [][NextHelp]_vars

(***************************************************************************)
(* A threaded listener: handle_request runs on several workers at once,    *)
(* each call with its own locals, while /ping and /help are served.        *)
(***************************************************************************)
InitThreaded ==
    /\ Constructed({Declared(<<ImageSpec, CountSpec>>)})
    /\ threaded = TRUE
    /\ traffic = "uploads"

NextThreaded == Next \/ Ping \/ Help

SpecThreaded == InitThreaded /\ [][NextThreaded]_vars

(***************************************************************************)
(* Properties.                                                             *)
(***************************************************************************)
\* The keys a request carries both as a form field and as an uploaded file.
DupKeys(request) == DOMAIN request.form \cap Range(request.files)
\* The JSON body {"message": m}.
MessageBody(m) == JObject(<<JString("message")>>, <<JString(m)>>)
\* A request is in progress or finished on worker t.
InProgress(t) == req[t].pc # "idle"
Finished(t) == req[t].pc = "done"

\* C1: a request with a key among both the form fields and the files is
\* answered 400 with the body {"message": m}, m naming a duplicated key, and
\* neither validation nor the model's prediction is invoked for it.
C1_DuplicateKeyRejected ==
    \A t \in Threads :
        (InProgress(t) /\ DupKeys(req[t].request) # {}) =>
            /\ req[t].calls.validate = 0
            /\ req[t].calls.run_model = 0
            /\ req[t].calls.create_response = 0
            /\ Finished(t) =>
                 /\ req[t].returned.kind = "return"
                 /\ req[t].returned.response.status = 400
                 /\ \E k \in DupKeys(req[t].request) :
                       req[t].returned.response.body =
                           MessageBody(DuplicatedMessage(k))

\* A finished request whose key "count" was both a form field and a file.
C1_Witness ==
    \E t \in Threads :
        /\ Finished(t)
        /\ "count" \in DupKeys(req[t].request)
        /\ req[t].returned.response.status = 400

\* Validation was called for the request of worker t and failed.
ValidationOf(t) ==
    validate_and_convert_inputs(model, req[t].raw_inputs, <<>>)
ValidationFailed(t) == req[t].calls.validate = 1 /\ ~ValidationOf(t).ok

\* C2: when validate_and_convert_inputs fails, the request ends in a 400
\* response carrying the error's message, and run_model is never invoked.
C2_ValidationErrorRejected ==
    \A t \in Threads :
        ValidationFailed(t) =>
            /\ req[t].calls.run_model = 0
            /\ req[t].calls.create_response = 0
            /\ req[t].pc \in {"finally", "done"}
            /\ Finished(t) =>
                 /\ req[t].returned.kind = "return"
                 /\ req[t].returned.response.status = 400
                 /\ req[t].returned.response.body =
                        MessageBody(ValidationOf(t).message)

\* A finished request rejected because "count" was below the minimum.
C2_Witness ==
    \E t \in Threads :
        /\ Finished(t)
        /\ ValidationFailed(t)
        /\ "count" \in DOMAIN req[t].raw_inputs
        /\ req[t].raw_inputs["count"] = PyStr("0")
        /\ req[t].returned.response.status = 400

\* The ids of the callbacks in the registry of worker t's request.
Registered(t) == {f.id : f \in Range(req[t].cleanup_functions)}
\* How often callback id was executed.
TimesExecuted(t, id) ==
    Cardinality({j \in 1..Len(req[t].executed) : req[t].executed[j] = id})

\* C3: on every exit path of handle_request (a 200, a 400 after a failed
\* conversion, an exception of the model or of the response builder) every
\* callback registered in the request's registry has been executed.
C3_RegistryDrainedOnEveryExit ==
    \A t \in Threads :
        Finished(t) =>
            /\ req[t].returned.kind \in {"return", "raise"}
            /\ \A id \in Registered(t) : TimesExecuted(t, id) >= 1

\* A conversion that registered a callback and then failed: the request
\* ended 400 and the callback ran.
C3_Witness ==
    \E t \in Threads :
        /\ Finished(t)
        /\ ValidationFailed(t)
        /\ req[t].returned.response.status = 400
        /\ \E f \in Range(req[t].cleanup_functions) :
              f.by = "convert" /\ TimesExecuted(t, f.id) = 1

\* The model's predict raised in worker t's request.
ModelRaised(t) ==
    /\ req[t].calls.run_model = 1
    /\ req[t].result = UNSET
    /\ req[t].pc \in {"finally", "done"}

\* What the try block of worker t's request hands to the caller when no
\* callback interferes: decided by the request, the model's outcome and the
\* measured times alone.
TryOutcomes(t) ==
    LET l == req[t]
    IN CASE DupKeys(l.request) # {} ->
              {Returns(_abort400(DuplicatedMessage(k))) :
                  k \in DupKeys(l.request)}
         [] DupKeys(l.request) = {} /\ ValidationFailed(t) ->
              {Returns(_abort400(ValidationOf(t).message))}
         [] DupKeys(l.request) = {} /\ ~ValidationFailed(t) /\ ModelRaised(t) ->
              {Raises("ModelError")}
         [] OTHER ->
              {create_response(l.result, setup_time, l.run_time, readable) :
                  readable \in BOOLEAN}

\* C4: if some of the N registered callbacks raise, every callback (the
\* others included) still executes exactly once, the raised error does not
\* leave handle_request, and the outcome is the one the try block produced.
C4_CleanupErrorIsolated ==
    \A t \in Threads :
        (Finished(t) /\ req[t].raised # {}) =>
            /\ \A id \in Registered(t) : TimesExecuted(t, id) = 1
            /\ Len(req[t].executed) = Len(req[t].cleanup_functions)
            /\ req[t].returned \in TryOutcomes(t)
            /\ Range(req[t].stderr) = req[t].raised

\* Three callbacks, the second of which raised while the others did not; the
\* request still ended 200.
C4_Witness ==
    \E t \in Threads :
        /\ Finished(t)
        /\ Len(req[t].cleanup_functions) = 3
        /\ req[t].raised = {2}
        /\ req[t].executed = <<1, 2, 3>>
        /\ req[t].returned.response.status = 200

\* C5: the callbacks execute one at a time in registration order, and all
\* of them have run before handle_request hands its outcome to the caller.
C5_CleanupInOrderBeforeReturn ==
    \A t \in Threads :
        /\ \A j \in 1..Len(req[t].cleanup_functions) :
              req[t].cleanup_functions[j].id = j
        /\ Len(req[t].executed) <= Len(req[t].cleanup_functions)
        /\ \A j \in 1..Len(req[t].executed) :
              req[t].executed[j] = req[t].cleanup_functions[j].id
        /\ req[t].pc = "finally" => Len(req[t].executed) = req[t].i - 1
        /\ req[t].returned.kind # "none" =>
              /\ Finished(t)
              /\ Len(req[t].executed) = Len(req[t].cleanup_functions)
        /\ (InProgress(t) /\ ~Finished(t)) => req[t].returned.kind = "none"

\* A returned response after two callbacks ran, in registration order.
C5_Witness ==
    \E t \in Threads :
        /\ Finished(t)
        /\ req[t].returned.kind = "return"
        /\ Len(req[t].cleanup_functions) >= 2
        /\ req[t].executed = <<1, 2>> \o SubSeq(req[t].executed, 3, Len(req[t].executed))

\* C6: when the model's predict raises, handle_request does not catch it
\* and does not answer 400: the exception leaves the handler, create_response
\* is not called, and the registry is drained before the exception leaves.
C6_ModelErrorPropagates ==
    \A t \in Threads :
        ModelRaised(t) =>
            /\ req[t].calls.create_response = 0
            /\ req[t].pending = Raises("ModelError")
            /\ ~Finished(t) => req[t].returned.kind = "none"
            /\ Finished(t) =>
                 /\ req[t].returned = Raises("ModelError")
                 /\ \A id \in Registered(t) : TimesExecuted(t, id) = 1

\* The model raised in a request whose conversion had registered a callback;
\* the exception left the handler after the callback ran.
C6_Witness ==
    \E t \in Threads :
        /\ Finished(t)
        /\ ModelRaised(t)
        /\ req[t].returned.kind = "raise"
        /\ req[t].cleanup_functions # <<>>
        /\ req[t].cleanup_functions[1].by = "convert"
        /\ req[t].executed # <<>>

\* Structural equality of a JSON document and a Python value: null and
\* None, a string and a str of the same text, a number and an int or float
\* of the same value, an array and a list or tuple of equal elements, an
\* object and a dict of equal keys and values.
StructEqAtom(j, x) ==
    \/ j.type = "null" /\ x.type = "NoneType"
    \/ j.type = "string" /\ x.type = "str" /\ j.s = x.s
    \/ j.type = "number" /\ x.type \in {"int", "float"} /\ j.n = x.n
StructEq(j, x) ==
    CASE x.type \in {"list", "tuple"} ->
            /\ j.type = "array"
            /\ Len(j.vals) = Len(x.vals)
            /\ \A i \in 1..Len(x.vals) : StructEqAtom(j.vals[i], x.vals[i])
      [] x.type = "dict" ->
            /\ j.type = "object"
            /\ Len(j.keys) = Len(x.keys)
            /\ Len(j.vals) = Len(x.vals)
            /\ \A i \in 1..Len(x.keys) : StructEqAtom(j.keys[i], x.keys[i])
            /\ \A i \in 1..Len(x.vals) : StructEqAtom(j.vals[i], x.vals[i])
      [] OTHER -> StructEqAtom(j, x)

\* create_response was called in worker t's request and produced a response.
Built(t) == req[t].calls.create_response = 1 /\ req[t].pending.kind = "return"
\* Every key of a dict result is a str.
StrKeyed(x) == \A i \in 1..Len(x.keys) : x.keys[i].type = "str"

\* C7 as the specification states it: a path result yields a file response,
\* otherwise a str result a text/plain response equal to the string,
\* otherwise a JSON response structurally equal to the value.
C7_AsStated ==
    \A t \in Threads :
        Built(t) =>
            LET result == req[t].result
                resp == req[t].pending.response
            IN CASE result.type = "Path" ->
                      resp.via = "send_file" /\ resp.body.s = result.s
                 [] result.type # "Path" /\ result.type = "str" ->
                      /\ resp.via = "Response"
                      /\ resp.mimetype = "text/plain"
                      /\ resp.body.s = result.s
                 [] OTHER ->
                      /\ resp.via = "jsonify"
                      /\ resp.mimetype = "application/json"
                      /\ StructEq(resp.body, result)

\* C7, amended: create_response takes exactly one of three branches: a path
\* result is sent as a file (or, unreadable, raises), otherwise a str result
\* yields a text/plain response equal to the string, otherwise the result is
\* JSON-encoded (or, not serializable, raises); the JSON body is structurally
\* equal to the value when the value's dict keys are strings, and carries the
\* text of every other key in its place.
C7_ThreeWayDispatch ==
    \A t \in Threads :
        req[t].calls.create_response = 1 =>
            LET result == req[t].result
                out == req[t].pending
                resp == out.response
            IN CASE result.type = "Path" ->
                      \/ out.kind = "return" /\ resp.via = "send_file"
                            /\ resp.body.s = result.s /\ resp.status = 200
                      \/ out = Raises("FileNotFoundError")
                 [] result.type # "Path" /\ result.type = "str" ->
                      /\ out.kind = "return"
                      /\ resp.via = "Response"
                      /\ resp.mimetype = "text/plain"
                      /\ resp.body.s = result.s
                      /\ resp.status = 200
                 [] OTHER ->
                      \/ /\ out.kind = "return"
                         /\ resp.via = "jsonify"
                         /\ resp.mimetype = "application/json"
                         /\ resp.status = 200
                         /\ StrKeyed(result) => StructEq(resp.body, result)
                         /\ resp.body.type = "object" =>
                              \A i \in 1..Len(result.keys) :
                                 /\ resp.body.keys[i].type = "string"
                                 /\ result.keys[i].type = "str" =>
                                       resp.body.keys[i].s = result.keys[i].s
                                 /\ result.keys[i].type = "int" =>
                                       resp.body.keys[i].s = ToString(result.keys[i].n)
                                 /\ StructEqAtom(resp.body.vals[i], result.vals[i])
                      \/ out = Raises("TypeError") /\ result.type = "set"

\* A dict with the integer key 1 came back as the JSON object with key "1".
C7_Witness ==
    \E t \in Threads :
        /\ Finished(t)
        /\ req[t].result = PyDict(<<PyInt(1)>>, <<PyStr("cat")>>)
        /\ req[t].returned.kind = "return"
        /\ req[t].returned.response.body =
              JObject(<<JString("1")>>, <<JString("cat")>>)

\* C8: every response create_response produces, whichever branch built it,
\* carries X-Setup-Time holding the setup time and X-Run-Time holding the
\* request's run time, as text.
C8_TimingHeaders ==
    \A t \in Threads :
        Built(t) =>
            /\ req[t].pending.response.via \in {"send_file", "Response", "jsonify"}
            /\ req[t].pending.response.headers =
                  {<<"X-Setup-Time", ToString(setup_time.n)>>,
                   <<"X-Run-Time", ToString(req[t].run_time.n)>>}
            /\ setup_time.type = "float"
            /\ req[t].run_time.type = "float"

\* A file response whose two headers carry different times.
C8_Witness ==
    \E t \in Threads :
        /\ Finished(t)
        /\ req[t].returned.kind = "return"
        /\ req[t].returned.response.via = "send_file"
        /\ <<"X-Setup-Time", "0">> \in req[t].returned.response.headers
        /\ <<"X-Run-Time", "1">> \in req[t].returned.response.headers

\* C9: the model's setup runs exactly once, before any /predict request is
\* handled, and the setup time captured then is the value every later
\* request reports: it never changes while the server serves.
C9_SetupOnce ==
    /\ [](\A t \in Threads :
            InProgress(t) =>
               /\ phase = "serving"
               /\ setup_count = 1
               /\ setup_time.type = "float"
               /\ Built(t) =>
                    <<"X-Setup-Time", ToString(setup_time.n)>>
                        \in req[t].pending.response.headers)
    /\ [][phase = "serving" =>
             /\ phase' = "serving"
             /\ setup_count' = setup_count
             /\ setup_time' = setup_time]_vars

\* A request answered with the setup time captured at start, which differs
\* from its own run time.
C9_Witness ==
    \E t \in Threads :
        /\ Finished(t)
        /\ setup_count = 1
        /\ setup_time = PyFloat(1)
        /\ req[t].run_time = PyFloat(0)
        /\ <<"X-Setup-Time", "1">> \in req[t].returned.response.headers

\* The schema declares the integer field "count" with min 1 and max 10 and
\* no default.
DeclaresCount == model.has_inputs /\ CountSpec \in Range(model.inputs)
\* The texts of "count" inside the bounds (the bounds included) with the
\* integers they denote, and those outside.
CountInBounds == {<<"1", 1>>, <<"5", 5>>, <<"10", 10>>}
CountOutOfBounds == {"0", "11"}
\* Worker t's request has left the validation step.
PastValidation(t) == req[t].pc \in {"run_model", "respond", "finally", "done"}
\* Nothing but "count" can fail in worker t's request: no key is duplicated,
\* and with a valid count the conversion succeeds.
RestValid(t) ==
    /\ DupKeys(req[t].request) = {}
    /\ validate_and_convert_inputs(
          model,
          [k \in DOMAIN req[t].raw_inputs \cup {"count"} |->
              IF k = "count" THEN PyStr("5") ELSE req[t].raw_inputs[k]],
          <<>>).ok

\* C10: with a schema declaring count as an integer, min 1, max 10, no
\* default: a request omitting count ends 400 naming count; a request whose
\* count is outside the bounds ends 400; a request whose count is inside or at
\* a bound passes validation, the model's prediction receives the integer
\* (not the text), and the response, when the model returns and the response
\* is built, is 200 and never a 400.
C10_CountScenario ==
    \A t \in Threads :
        (DeclaresCount /\ PastValidation(t) /\ DupKeys(req[t].request) = {}) =>
            LET l == req[t]
                omitted == "count" \notin DOMAIN l.raw_inputs
                rejected == /\ l.calls.run_model = 0
                            /\ l.pc \in {"finally", "done"}
                            /\ l.pending.kind = "return"
                            /\ l.pending.response.status = 400
                            /\ Finished(t) => l.returned = l.pending
            IN /\ omitted => rejected
               /\ (omitted /\ RestValid(t)) =>
                     l.pending.response.body =
                        MessageBody("Missing expected argument: count")
               /\ (~omitted /\ l.raw_inputs["count"].s \in CountOutOfBounds
                      /\ l.raw_inputs["count"].type = "str") => rejected
               /\ \A c \in CountInBounds :
                     (/\ ~omitted
                      /\ l.raw_inputs["count"] = PyStr(c[1])
                      /\ RestValid(t)) =>
                        /\ l.calls.validate = 1
                        /\ l.inputs["count"] = PyInt(c[2])
                        /\ l.pc # "run_model" =>
                              /\ l.calls.run_model = 1
                              /\ l.predict_args["count"] = PyInt(c[2])
                        /\ l.pending.kind = "return" =>
                              l.pending.response.status = 200
                        /\ Finished(t) =>
                              /\ l.returned = l.pending
                              /\ l.returned.kind = "return" =>
                                    l.returned.response.status = 200

\* count=10, at the upper bound: the model received the integer 10 and the
\* request ended 200.
C10_Witness ==
    \E t \in Threads :
        /\ Finished(t)
        /\ model = Declared(<<CountSpec>>)
        /\ req[t].raw_inputs = [k \in {"count"} |-> PyStr("10")]
        /\ req[t].predict_args = [k \in {"count"} |-> PyInt(10)]
        /\ req[t].returned.kind = "return"
        /\ req[t].returned.response.status = 200

\* The merged raw input map of a request without duplicated keys: every form
\* field with its text, every uploaded file with its handle.
MergedInputs(request) ==
    [k \in DOMAIN request.form \cup Range(request.files) |->
        IF k \in DOMAIN request.form THEN PyStr(request.form[k])
        ELSE FileStorage(UploadName)]

\* C11: when the model's predict carries no input schema, no validation is
\* performed, the model is invoked with exactly the merged raw input map, and
\* the request is never rejected with a validation 400 (the only 400 is the
\* one for a duplicated key).
C11_NoSchemaPassThrough ==
    \A t \in Threads :
        (~model.has_inputs /\ InProgress(t)) =>
            /\ req[t].calls.validate = 0
            /\ (req[t].pending.kind = "return"
                   /\ req[t].pending.response.status = 400) =>
                  DupKeys(req[t].request) # {}
            /\ (DupKeys(req[t].request) = {} /\ PastValidation(t)) =>
                  /\ req[t].inputs = MergedInputs(req[t].request)
                  /\ req[t].pc # "run_model" =>
                        /\ req[t].calls.run_model = 1
                        /\ req[t].predict_args = MergedInputs(req[t].request)

\* Without a schema, a request with the form field count=abc and the file
\* image reached the model as it was and ended 200.
C11_Witness ==
    \E t \in Threads :
        /\ Finished(t)
        /\ ~model.has_inputs
        /\ req[t].request = [form |-> [k \in {"count"} |-> "abc"],
                             files |-> <<"image">>]
        /\ req[t].predict_args =
              [k \in {"count", "image"} |->
                  IF k = "count" THEN PyStr("abc") ELSE FileStorage(UploadName)]
        /\ req[t].returned.kind = "return"
        /\ req[t].returned.response.status = 200

(***************************************************************************)
(* The /help document.                                                     *)
(***************************************************************************)
\* Reading a JSON object.
HasKey(object, key) == \E i \in 1..Len(object.keys) : object.keys[i] = JString(key)
Get(object, key) ==
    object.vals[CHOOSE i \in 1..Len(object.keys) : object.keys[i] = JString(key)]
\* The entry of a field in the document last served by /help.
Entry(name) == Get(Get(served.response.body, "arguments"), name)
HelpServed == served.route = "/help"
Fields == {model.inputs[i] : i \in 1..Len(model.inputs)}

\* C12: in the /help document a field's entry has the key "default" exactly
\* when the field declares a default (anything but UNSPECIFIED); a declared
\* default is emitted as text, also when it is the empty string, zero or None,
\* and an undeclared default leaves no key at all.
C12_DefaultKeyIffDeclared ==
    (HelpServed /\ model.has_inputs) =>
        \A spec \in Fields :
            /\ HasKey(Entry(spec.name), "default") <=> spec.default # UNSPECIFIED
            /\ HasKey(Entry(spec.name), "default") =>
                  /\ Get(Entry(spec.name), "default").type = "string"
                  /\ spec.default = PyStr("") =>
                        Get(Entry(spec.name), "default") = JString("")
                  /\ spec.default = PyNone =>
                        Get(Entry(spec.name), "default") = JString("None")
                  /\ spec.default = PyInt(0) =>
                        Get(Entry(spec.name), "default") = JString("0")

\* /help served a field whose declared default is the empty string, as
\* "default": "".
C12_Witness ==
    /\ HelpServed
    /\ \E spec \in Fields :
          /\ spec.default = PyStr("")
          /\ Get(Entry(spec.name), "default") = JString("")

\* C13 as stated: each of help, min, max and options is present exactly when
\* the field declares it (has a value other than None), an empty help text
\* included.
C13_AsStated ==
    (HelpServed /\ model.has_inputs) =>
        \A spec \in Fields :
            /\ HasKey(Entry(spec.name), "type")
            /\ HasKey(Entry(spec.name), "help") <=> spec.help # PyNone
            /\ HasKey(Entry(spec.name), "min") <=> spec.min # PyNone
            /\ HasKey(Entry(spec.name), "max") <=> spec.max # PyNone
            /\ HasKey(Entry(spec.name), "options") <=> spec.options # PyNone

\* C13, amended: "type" is always present; min, max and options are present
\* exactly when the field declares them (a bound of 0 and an empty options
\* list included), as text; help is present exactly when the field declares a
\* help text that is not empty.
C13_OptionalKeys ==
    (HelpServed /\ model.has_inputs) =>
        \A spec \in Fields :
            /\ HasKey(Entry(spec.name), "type")
            /\ Get(Entry(spec.name), "type").type = "string"
            /\ HasKey(Entry(spec.name), "help") <=>
                  (spec.help # PyNone /\ spec.help # PyStr(""))
            /\ HasKey(Entry(spec.name), "help") =>
                  Get(Entry(spec.name), "help") = JString(spec.help.s)
            /\ HasKey(Entry(spec.name), "min") <=> spec.min # PyNone
            /\ spec.min = PyInt(0) => Get(Entry(spec.name), "min") = JString("0")
            /\ HasKey(Entry(spec.name), "max") <=> spec.max # PyNone
            /\ spec.max = PyInt(0) => Get(Entry(spec.name), "max") = JString("0")
            /\ HasKey(Entry(spec.name), "options") <=> spec.options # PyNone
            /\ spec.options = PyList(<<>>) =>
                  Get(Entry(spec.name), "options") = JArray(<<>>)
            /\ spec.options = PyList(<<PyInt(1), PyStr("a")>>) =>
                  Get(Entry(spec.name), "options") =
                      JArray(<<JString("1"), JString("a")>>)

\* /help served a field with an empty help text, min 0, no max and an empty
\* options list: the entry has min and options and neither help nor max.
C13_Witness ==
    /\ HelpServed
    /\ \E spec \in Fields :
          /\ spec.help = PyStr("")
          /\ spec.min = PyInt(0)
          /\ spec.max = PyNone
          /\ spec.options = PyList(<<>>)
          /\ HasKey(Entry(spec.name), "min")
          /\ HasKey(Entry(spec.name), "options")
          /\ ~HasKey(Entry(spec.name), "help")
          /\ ~HasKey(Entry(spec.name), "max")

\* C14: /help answers 200 with a JSON object whose only key is "arguments";
\* without a declared schema its value is the empty object, with one it has
\* one entry per declared field, in declaration order, and no other.
C14_OneEntryPerField ==
    HelpServed =>
        /\ served.response.status = 200
        /\ served.response.mimetype = "application/json"
        /\ served.response.body.type = "object"
        /\ served.response.body.keys = <<JString("arguments")>>
        /\ ~model.has_inputs =>
              served.response.body = JObject(<<JString("arguments")>>,
                                             <<JObject(<<>>, <<>>)>>)
        /\ model.has_inputs =>
              /\ Get(served.response.body, "arguments").type = "object"
              /\ Get(served.response.body, "arguments").keys =
                    [i \in 1..Len(model.inputs) |-> JString(model.inputs[i].name)]

\* /help served a schema of two fields with two entries.
C14_Witness ==
    /\ HelpServed
    /\ model = Declared(<<ImageSpec, CountSpec>>)
    /\ Len(Get(served.response.body, "arguments").keys) = 2
    /\ HasKey(Entry("count"), "min")

\* /help served a model without a schema.
C14_WitnessNoSchema ==
    /\ HelpServed
    /\ model = NoSchema
    /\ served.response.body.vals = <<JObject(<<>>, <<>>)>>

(***************************************************************************)
(* The routes beside /predict, and requests in flight together.            *)
(***************************************************************************)
\* C15: a step that serves /ping or /help leaves the model with its schema,
\* the setup count and the captured setup time, and the locals of every
\* /predict call (its registry, the callbacks run, the calls made to the
\* model) as they were; whatever the requests in flight, /ping answers 200
\* with the text "PONG".
C15_RoutesReadOnly ==
    /\ [](served.route = "/ping" =>
             /\ served.response.status = 200
             /\ served.response.body = Atom("text", "PONG", 0))
    /\ [][served' # served =>
             /\ served'.route \in {"/ping", "/help"}
             /\ UNCHANGED <<model, phase, setup_count, setup_time, req>>]_vars

\* /ping answered "PONG" with one /predict call in its cleanup loop and
\* another waiting for the model.
C15_Witness ==
    /\ served.route = "/ping"
    /\ served.response.body = Atom("text", "PONG", 0)
    /\ req["t1"].pc = "finally"
    /\ req["t1"].executed # <<>>
    /\ req["t2"].pc = "run_model"
    /\ setup_count = 1

\* C17: a /predict call starts with an empty registry and nothing executed;
\* with several calls in flight, a callback is run only by a step of the
\* cleanup loop of the call that registered it, which leaves the locals of
\* every other call alone, and no callback is run twice.
C17_RegistryPerRequest ==
    /\ [](\A t \in Threads :
             /\ req[t].pc = "validate" =>
                   (req[t].cleanup_functions = <<>> /\ req[t].executed = <<>>)
             /\ Range(req[t].executed) \subseteq Registered(t)
             /\ \A id \in Registered(t) : TimesExecuted(t, id) <= 1)
    /\ [][\A u \in Threads :
             Len(req'[u].executed) > Len(req[u].executed) =>
                 /\ req[u].pc = "finally"
                 /\ req[u].i <= Len(req[u].cleanup_functions)
                 /\ req'[u].executed =
                       Append(req[u].executed, req[u].cleanup_functions[req[u].i].id)
                 /\ \A v \in Threads \ {u} : req'[v] = req[v]]_vars

\* Two calls in their cleanup loops at once: one has run the first of its
\* two callbacks, the other both of its own.
C17_Witness ==
    /\ req["t1"].pc = "finally"
    /\ Len(req["t1"].cleanup_functions) = 2
    /\ req["t1"].executed = <<1>>
    /\ req["t2"].pc = "finally"
    /\ Len(req["t2"].cleanup_functions) = 2
    /\ req["t2"].executed = <<1, 2>>

(***************************************************************************)
(* The order of the steps of one request.                                  *)
(***************************************************************************)
\* The cleanup loop of worker t's request has run every callback of the
\* registry.
Drained(t) ==
    /\ req[t].pc \in {"finally", "done"}
    /\ req[t].i > Len(req[t].cleanup_functions)
    /\ Len(req[t].executed) = Len(req[t].cleanup_functions)

\* Collection before validation, validation before the invocation, and no
\* callback before the invocation has finished.
CollectValidateInvoke(t) ==
    /\ req[t].pc = "validate" =>
          /\ req[t].calls = NoCalls
          /\ req[t].raw_inputs = MergedInputs(req[t].request)
    /\ req[t].calls.validate >= 1 => DupKeys(req[t].request) = {}
    /\ req[t].pc = "run_model" => req[t].calls.run_model = 0
    /\ req[t].calls.run_model >= 1 =>
          /\ req[t].pc \in {"respond", "finally", "done"}
          /\ model.has_inputs =>
                (req[t].calls.validate = 1 /\ ValidationOf(t).ok)
    /\ req[t].executed # <<>> => req[t].pc \in {"finally", "done"}

\* C16 as stated: collect, validate, invoke, cleanup, respond, the response
\* builder producing the response only after the cleanup loop has drained.
C16_AsStated ==
    \A t \in Threads :
        InProgress(t) =>
            /\ CollectValidateInvoke(t)
            /\ req[t].calls.create_response >= 1 => Drained(t)

\* C16, amended: collection finishes before validation starts, validation
\* before the model is invoked, no callback runs before the invocation has
\* finished; after a successful invocation the response builder produces
\* the response before the first callback runs, and the response (or the
\* exception) leaves handle_request only after the loop has drained.
C16_StepOrder ==
    \A t \in Threads :
        InProgress(t) =>
            /\ CollectValidateInvoke(t)
            /\ req[t].calls.create_response >= 1 =>
                  (req[t].calls.run_model = 1 /\ req[t].result # UNSET)
            /\ req[t].pc = "respond" =>
                  (req[t].executed = <<>> /\ req[t].calls.create_response = 0)
            /\ (req[t].executed # <<>> /\ req[t].result # UNSET) =>
                  (req[t].calls.create_response = 1 /\ req[t].pending # Nothing)
            /\ req[t].returned # Nothing =>
                  (Finished(t) /\ Drained(t) /\ req[t].returned = req[t].pending)

\* A request that went through every step: converted, invoked, answered 200
\* after its two callbacks ran.
C16_Witness ==
    \E t \in Threads :
        /\ Finished(t)
        /\ req[t].calls = [validate |-> 1, run_model |-> 1, create_response |-> 1]
        /\ req[t].executed = <<1, 2>>
        /\ req[t].returned.kind = "return"
        /\ req[t].returned.response.status = 200

\* C18: when handle_request has ended, every callback that run_model or a
\* cleanup callback added to the registry has been executed exactly once,
\* after the callbacks registered before it, whether the model returned or
\* raised.
C18_LateCallbacksRun ==
    \A t \in Threads :
        /\ InProgress(t) =>
              \A j \in 1..Len(req[t].executed) : req[t].executed[j] = j
        /\ Finished(t) =>
              \A f \in Range(req[t].cleanup_functions) :
                  f.by \in {"run_model", "cleanup"} => TimesExecuted(t, f.id) = 1

\* The model raised after run_model had registered a callback, and a
\* callback registered another one during the loop: both ran once.
C18_Witness ==
    \E t \in Threads :
        /\ Finished(t)
        /\ ModelRaised(t)
        /\ req[t].returned.kind = "raise"
        /\ \E f, g \in Range(req[t].cleanup_functions) :
              /\ f.by = "run_model"
              /\ g.by = "cleanup"
              /\ TimesExecuted(t, f.id) = 1
              /\ TimesExecuted(t, g.id) = 1

\* The response builder was called for worker t's request and could not
\* build: it raised, or its result is one json.dumps does not accept.
BuildFailed(t) ==
    /\ req[t].calls.create_response = 1
    /\ \/ req[t].pending.kind = "raise"
       \/ ResultBranch(req[t].result) = "jsonify" /\ ~Serializable(req[t].result)

\* C19: when create_response fails after the model returned, its exception
\* is what leaves handle_request (no 400 is made of it), and every
\* registered callback has run once by then.
C19_BuildErrorPropagates ==
    \A t \in Threads :
        BuildFailed(t) =>
            /\ req[t].calls.run_model = 1
            /\ req[t].result # UNSET
            /\ req[t].pending.kind = "raise"
            /\ req[t].pending.exception \in {"TypeError", "FileNotFoundError"}
            /\ Finished(t) =>
                  /\ req[t].returned = req[t].pending
                  /\ \A id \in Registered(t) : TimesExecuted(t, id) = 1
                  /\ Len(req[t].executed) = Len(req[t].cleanup_functions)

\* The model returned a set: the TypeError of json.dumps left handle_request
\* after the three registered callbacks had run.
C19_Witness ==
    \E t \in Threads :
        /\ Finished(t)
        /\ req[t].result = PySet(<<PyInt(1)>>)
        /\ req[t].returned = Raises("TypeError")
        /\ req[t].executed = <<1, 2, 3>>

\* The path the model returned could not be read: the error left
\* handle_request.
C19_WitnessUnreadable ==
    \E t \in Threads :
        /\ Finished(t)
        /\ req[t].result.type = "Path"
        /\ req[t].returned = Raises("FileNotFoundError")
        /\ req[t].executed # <<>>

=============================================================================
